---- MODULE Spec2Model ----
(***************************************************************************)
(* Selection-triggered action pipeline of the Nexus context-aware app.     *)
(*                                                                         *)
(* Two windows run the same App component: "main" (pipeline controller,    *)
(* App.tsx) and "popup" (overlay, ActionPopup.tsx).  They talk only by     *)
(* the asynchronous events trigger-spotlight and trigger-selection and by  *)
(* commands sent to the backend.  Every await of the source is a point     *)
(* where the handler is suspended; the continuation is a separate action.  *)
(*                                                                         *)
(* Optional values (null / undefined in the source) are sequences of       *)
(* length 0 (None) or 1 (Some(v)).  A text is the sequence of the lengths  *)
(* of its lines, which is all the overlay computes from it.                *)
(*                                                                         *)
(* flight, lastCycle, the log field of runs, closedBy, gen, resultGen and  *)
(* out are history variables: they record what the code did and are never  *)
(* read by an action that models it.  Hover state (hoveredIndex) only      *)
(* selects a tooltip and is left out.                                      *)
(***************************************************************************)
EXTENDS Integers, Sequences, FiniteSets, Bags, TLC

VARIABLES
    \* ---- main window (App.tsx) ----
    isProcessing,   \* isProcessing.current, the single-flight flag
    runs,           \* one runSelectionProcess activation per listener
    inbox,          \* trigger-spotlight events not yet delivered, per listener
    nTriggers,      \* number of trigger-spotlight events emitted so far
    flight,         \* calls made since the controller was last idle
    lastCycle,      \* log of the trigger cycle that finished last
    \* ---- channel main -> popup ----
    chan,           \* trigger-selection messages published, not yet delivered
    \* ---- popup window (App.tsx, ActionPopup.tsx) ----
    popupData,      \* App state popupData
    aiResult,       \* ActionPopup state aiResult
    loading,        \* ActionPopup state loading
    copied,         \* ActionPopup state copied
    selectedIndex,  \* ActionPopup state selectedIndex (0-based)
    visible,        \* visibility of the popup window
    closedBy,       \* what hid the popup window last
    calls,          \* external calls of the overlay that have not replied
    timers,         \* pending setTimeout callbacks of handleCopy
    gen,            \* number of the Session the overlay displays
    resultGen,      \* Session whose dispatch produced aiResult
    availHeight,    \* window.screen.availHeight of the display
    matcher,        \* the Rule Matcher: rule set, capture and MatchResult
    other,          \* each event at the window whose role it is not
                    \* (trigger-spotlight in popup, trigger-selection
                    \* in main) and what that window did with it
    out             \* the reply the last step handled, if any, and the
                    \* set_popup_position, adjust_window_size and
                    \* clipboard calls it made with their arguments,
                    \* and the setLoading calls of a dispatch that awaits
                    \* nothing (every other call shows in runs, calls,
                    \* loading or visible)

vars == <<isProcessing, runs, inbox, nTriggers, flight, lastCycle, chan,
          popupData, aiResult, loading, copied, selectedIndex, visible,
          closedBy, calls, timers, gen, resultGen, availHeight, matcher, other,
          out>>

\* what a step of the popup window and what a step of the main window
\* leave alone; no step changes the display
mainVars == <<isProcessing, runs, inbox, nTriggers, flight, lastCycle,
              availHeight, matcher, other>>
popupVars == <<popupData, aiResult, loading, copied, selectedIndex,
               closedBy, calls, timers, gen, resultGen, availHeight,
               matcher, other>>

\* ---------------------------------------------------------------- bounds
MaxTriggers == 1
MaxInFlight == 2
MaxTimers == 1

\* ------------------------------------------------------------ basic values
None == <<>>
Some(v) == <<v>>

Listeners == {"primary", "backup"}

\* window.screen.availHeight of the display the two windows run on
AvailHeight == 1000

\* no event is pending at the window whose role it is not: the popup
\* window has invoked process_selection proc times (none) and the main
\* window holds no popupData
NoOther == [spotlight |-> <<>>, selection |-> <<>>, proc |-> 0, popupData |-> None]

\* a Rule Matcher that holds no rule and has matched nothing
NoMatch == [appId |-> <<>>, text |-> <<>>, rules |-> <<>>, result |-> None]

\* trigger-spotlight payloads: the tuple the backend emits and the object
\* form the listeners also accept
SpotlightPayloads ==
    { [isArray |-> TRUE, elems |-> <<120, 340>>, props |-> None],
      [isArray |-> FALSE, elems |-> <<>>, props |-> Some([x |-> 120, y |-> 340])] }

\* candidate lists a process_selection call can return (action.type of each
\* candidate, in MatchResult order)
ActionLists ==
    { <<"url", "local_format", "script">>,
      <<"ai_translate", "path">>,
      <<"ai_other">> }

\* result texts of the external transforms, as line lengths
ResultTexts == { <<1>> }

AiResult(text, kind) == [result |-> text, action_type |-> kind]

\* what process_selection can resolve with
ProcResults ==
    { [present |-> FALSE, actions |-> None, captured_text |-> "t1", ai_result |-> None],
      [present |-> TRUE, actions |-> None, captured_text |-> "t1", ai_result |-> None],
      [present |-> TRUE, actions |-> Some(<<>>), captured_text |-> "t1", ai_result |-> None] }
    \cup
    { [present |-> TRUE, actions |-> Some(l), captured_text |-> "t1", ai_result |-> None] :
        l \in ActionLists }
    \cup
    { [present |-> TRUE, actions |-> Some(<<"ai_translate", "path">>),
       captured_text |-> "t2", ai_result |-> Some(AiResult(<<1>>, "ai_intent"))] }

IdleRun == [pc |-> "idle", pos |-> None, res |-> None, log |-> <<>>]

InFlight(l) == runs[l].pc # "idle"
AnyInFlight == \E l \in Listeners : InFlight(l)

Init ==
    /\ isProcessing = FALSE
    /\ runs = [l \in Listeners |-> IdleRun]
    /\ inbox = [l \in Listeners |-> <<>>]
    /\ nTriggers = 0
    /\ flight = [proc |-> 0, show |-> 0, emit |-> 0]
    /\ lastCycle = <<>>
    /\ chan = <<>>
    /\ popupData = None
    /\ aiResult = None
    /\ loading = FALSE
    /\ copied = FALSE
    /\ selectedIndex = 0
    /\ visible = FALSE
    /\ closedBy = "other"
    /\ calls = EmptyBag
    /\ timers = <<>>
    /\ gen = 0
    /\ resultGen = 0
    /\ availHeight = AvailHeight
    /\ matcher = NoMatch
    /\ other = NoOther
    /\ out = <<>>

\* ------------------------------------------------- main window: controller

\* the backend emits trigger-spotlight; every listener of the main window
\* gets its own delivery
EmitSpotlight ==
    /\ nTriggers < MaxTriggers
    /\ \E p \in SpotlightPayloads :
          inbox' = [l \in Listeners |-> Append(inbox[l], p)]
    /\ nTriggers' = nTriggers + 1
    /\ out' = <<>>
    /\ UNCHANGED <<isProcessing, runs, flight, lastCycle, chan, visible>>
    /\ UNCHANGED popupVars

\* a parse that knows the tuple only: an object is read as the origin
ParsePayloadTupleOnly(p) ==
    IF p.isArray
    THEN <<p.elems[1], p.elems[2]>>
    ELSE <<0, 0>>

\* App.tsx:112-120 and 156-163
ParsePayload(p) ==
    IF p.isArray
    THEN <<p.elems[1], p.elems[2]>>
    ELSE <<p.props[1].x, p.props[1].y>>

\* a debounce test that never finds the flag set
NeverProcessing == FALSE

\* App.tsx:58 the debounce test of runSelectionProcess
AlreadyProcessing == isProcessing

\* App.tsx:56-68 runSelectionProcess up to its first await
RunSelectionProcess(l, position) ==
    IF AlreadyProcessing
    THEN /\ out' = <<>>
         /\ UNCHANGED <<isProcessing, runs, flight, lastCycle>>
    ELSE /\ runs[l].pc = "idle"
         /\ isProcessing' = TRUE
         /\ runs' = [runs EXCEPT ![l] =
                [pc |-> "awaitProcess", pos |-> position, res |-> None,
                 log |-> <<"call:process_selection">>]]
         /\ flight' = [flight EXCEPT !.proc = @ + 1]
         /\ out' = <<>>
         /\ UNCHANGED lastCycle

\* App.tsx:109-124 the listener registered in the main window
SpotlightPrimary ==
    /\ inbox["primary"] # <<>>
    /\ inbox' = [inbox EXCEPT !["primary"] = Tail(@)]
    /\ RunSelectionProcess("primary", Some(ParsePayload(Head(inbox["primary"]))))
    /\ UNCHANGED <<nTriggers, chan, visible>>
    /\ UNCHANGED popupVars

\* App.tsx:147-167 the backup listener, in the main window
SpotlightBackup ==
    /\ inbox["backup"] # <<>>
    /\ inbox' = [inbox EXCEPT !["backup"] = Tail(@)]
    /\ RunSelectionProcess("backup", Some(ParsePayload(Head(inbox["backup"]))))
    /\ UNCHANGED <<nTriggers, chan, visible>>
    /\ UNCHANGED popupVars

\* a release on the normal exits only, not after a rejection
FlagKeptOnRejection(outcome) == outcome = "rejected"

\* App.tsx:93-96 the finally block: value of the flag after a cycle
FlagAfterCycle(outcome) == FALSE

\* the end of a runSelectionProcess activation (catch + finally)
Finish(l, outcome, entries) ==
    /\ isProcessing' = FlagAfterCycle(outcome)
    /\ runs' = [runs EXCEPT ![l] = IdleRun]
    /\ lastCycle' = runs[l].log \o entries \o <<outcome>>
    /\ flight' = IF \A k \in Listeners \ {l} : ~InFlight(k)
                 THEN [proc |-> 0, show |-> 0, emit |-> 0]
                 ELSE flight

\* a test that forgets the length of the actions
HasActionsField(r) ==
    /\ r.present
    /\ r.actions # None

\* App.tsx:71
HasActions(r) ==
    /\ r.present
    /\ r.actions # None
    /\ Len(r.actions[1]) > 0

\* a cycle that never positions the overlay
PositionIgnored(position) == FALSE

\* App.tsx:73
PositionSupplied(position) == position # None

\* the match result as the backend returned it: no result, no actions field
\* or zero actions (recorded in the cycle's log)
MatchLabel(r) ==
    IF ~r.present \/ r.actions = None \/ r.actions = Some(<<>>)
    THEN "result:empty"
    ELSE "result:some"

\* App.tsx:74-77 invoke("set_popup_position", { x: position.x, y: position.y })
SetPopupPosition(position) ==
    [cmd |-> "set_popup_position", x |-> position[1], y |-> position[2]]

\* App.tsx:68-80 process_selection resolves
ProcessSelectionResolves(l) ==
    /\ runs[l].pc = "awaitProcess"
    /\ \E r \in ProcResults :
        IF HasActions(r)
        THEN IF PositionSupplied(runs[l].pos)
             THEN /\ runs' = [runs EXCEPT ![l].pc = "awaitPosition",
                                          ![l].res = Some(r),
                                          ![l].log = @ \o <<"done:process_selection",
                                                            MatchLabel(r),
                                                            "call:set_popup_position">>]
                  /\ out' = <<SetPopupPosition(runs[l].pos[1])>>
                  /\ UNCHANGED <<isProcessing, flight, lastCycle>>
             ELSE /\ runs' = [runs EXCEPT ![l].pc = "awaitVisibility",
                                          ![l].res = Some(r),
                                          ![l].log = @ \o <<"done:process_selection",
                                                            MatchLabel(r),
                                                            "call:set_window_visibility">>]
                  /\ out' = <<>>
                  /\ flight' = [flight EXCEPT !.show = @ + 1]
                  /\ UNCHANGED <<isProcessing, lastCycle>>
        ELSE /\ Finish(l, "nothing", <<"done:process_selection", MatchLabel(r)>>)
             /\ out' = <<>>
    /\ UNCHANGED <<inbox, nTriggers, chan, visible>>
    /\ UNCHANGED popupVars

\* a capture failure that goes on to show the overlay
ProcessSelectionRejectsShows(l) ==
    /\ runs[l].pc = "awaitProcess"
    /\ Finish(l, "rejected", <<"fail:process_selection">>)
    /\ visible' = TRUE
    /\ closedBy' = "none"
    /\ out' = <<>>
    /\ UNCHANGED <<inbox, nTriggers, chan>>
    /\ UNCHANGED <<popupData, aiResult, loading, copied, selectedIndex,
                   calls, timers, gen, resultGen, availHeight,
                   matcher, other>>

\* App.tsx:68 process_selection rejects -> catch, finally
ProcessSelectionRejects(l) ==
    /\ runs[l].pc = "awaitProcess"
    /\ Finish(l, "rejected", <<"fail:process_selection">>)
    /\ out' = <<>>
    /\ UNCHANGED <<inbox, nTriggers, chan, visible>>
    /\ UNCHANGED popupVars

\* App.tsx:74-80 set_popup_position resolves
SetPopupPositionResolves(l) ==
    /\ runs[l].pc = "awaitPosition"
    /\ runs' = [runs EXCEPT ![l].pc = "awaitVisibility",
                            ![l].log = @ \o <<"done:set_popup_position",
                                              "call:set_window_visibility">>]
    /\ flight' = [flight EXCEPT !.show = @ + 1]
    /\ out' = <<>>
    /\ UNCHANGED <<isProcessing, lastCycle, inbox, nTriggers, chan, visible>>
    /\ UNCHANGED popupVars

SetPopupPositionRejects(l) ==
    /\ runs[l].pc = "awaitPosition"
    /\ Finish(l, "rejected", <<"fail:set_popup_position">>)
    /\ out' = <<>>
    /\ UNCHANGED <<inbox, nTriggers, chan, visible>>
    /\ UNCHANGED popupVars

\* a payload that drops the backend's ai_result
PayloadWithoutResult(r) ==
    [actions |-> r.actions[1], capturedText |-> r.captured_text,
     aiResult |-> None]

\* a payload that carries a kept copy of the captured text
PayloadCachedText(r) ==
    [actions |-> r.actions[1], capturedText |-> "t1",
     aiResult |-> r.ai_result]

\* App.tsx:81-85
Payload(r) ==
    [actions |-> r.actions[1], capturedText |-> r.captured_text,
     aiResult |-> r.ai_result]

\* App.tsx:80-87 set_window_visibility resolves: the popup window is shown
SetWindowVisibilityResolves(l) ==
    /\ runs[l].pc = "awaitVisibility"
    /\ visible' = TRUE
    /\ closedBy' = "none"
    /\ runs' = [runs EXCEPT ![l].pc = "awaitEmit",
                            ![l].log = @ \o <<"done:set_window_visibility",
                                              "call:emit">>]
    /\ flight' = [flight EXCEPT !.emit = @ + 1]
    /\ out' = <<>>
    /\ UNCHANGED <<isProcessing, lastCycle, inbox, nTriggers, chan>>
    /\ UNCHANGED <<popupData, aiResult, loading, copied, selectedIndex,
                   calls, timers, gen, resultGen, availHeight,
                   matcher, other>>

\* a rejection of set_window_visibility that is followed by the emit
SetWindowVisibilityRejectsEmits(l) ==
    /\ runs[l].pc = "awaitVisibility"
    /\ chan' = Append(chan, Payload(runs[l].res[1]))
    /\ Finish(l, "published", <<"fail:set_window_visibility", "done:emit">>)
    /\ out' = <<>>
    /\ UNCHANGED <<inbox, nTriggers, visible>>
    /\ UNCHANGED popupVars

\* App.tsx:80 set_window_visibility rejects -> catch, finally
SetWindowVisibilityRejects(l) ==
    /\ runs[l].pc = "awaitVisibility"
    /\ Finish(l, "rejected", <<"fail:set_window_visibility">>)
    /\ out' = <<>>
    /\ UNCHANGED <<inbox, nTriggers, chan, visible>>
    /\ UNCHANGED popupVars

\* App.tsx:87 emit resolves: the message is on its way to the popup window
EmitResolves(l) ==
    /\ runs[l].pc = "awaitEmit"
    /\ chan' = Append(chan, Payload(runs[l].res[1]))
    /\ Finish(l, "published", <<"done:emit">>)
    /\ out' = <<>>
    /\ UNCHANGED <<inbox, nTriggers, visible>>
    /\ UNCHANGED popupVars

EmitRejects(l) ==
    /\ runs[l].pc = "awaitEmit"
    /\ Finish(l, "rejected", <<"fail:emit">>)
    /\ out' = <<>>
    /\ UNCHANGED <<inbox, nTriggers, chan, visible>>
    /\ UNCHANGED popupVars

MainNext ==
    \/ EmitSpotlight
    \/ SpotlightPrimary
    \/ SpotlightBackup
    \/ \E l \in Listeners : ProcessSelectionResolves(l)
    \/ \E l \in Listeners : ProcessSelectionRejects(l)
    \/ \E l \in Listeners : SetPopupPositionResolves(l)
    \/ \E l \in Listeners : SetPopupPositionRejects(l)
    \/ \E l \in Listeners : SetWindowVisibilityResolves(l)
    \/ \E l \in Listeners : SetWindowVisibilityRejects(l)
    \/ \E l \in Listeners : EmitResolves(l)
    \/ \E l \in Listeners : EmitRejects(l)

\* ------------------------------------------------- popup window: overlay

\* a quotient rounded down
FloorDiv(a, b) == a \div b

\* ActionPopup.tsx:89 Math.ceil(a / b) for integers a >= 0, b > 0
CeilDiv(a, b) == (a + b - 1) \div b
Max(a, b) == IF a >= b THEN a ELSE b
Min(a, b) == IF a <= b THEN a ELSE b

RECURSIVE EstimatedLineCount(_)
\* ActionPopup.tsx:82-90
EstimatedLineCount(lines) ==
    IF lines = <<>> THEN 0
    ELSE CeilDiv(Max(1, Head(lines)), 55) + EstimatedLineCount(Tail(lines))

\* the estimated line counts up to MaxEstimatedLines whose text height
\* n * 22.4 + 60, computed in IEEE doubles, falls just below its exact
\* value, an integer (85 * 22.4 is 1903.9999999999998)
MaxEstimatedLines == 200
RoundsBelow == {85, 165, 170, 175, 180}

\* a total height without the 60 pixels of padding and button row
TotalHeight10Bare(n) == n * 224

\* ActionPopup.tsx:92-95 totalHeight in tenths of a pixel, one tenth less
\* where the double is just below the integer
TotalHeight10(n) == n * 224 + 600 - (IF n \in RoundsBelow THEN 1 ELSE 0)

\* a height that is not limited to the share of the display
FinalHeightUnlimited(text, screenHeight) ==
    Max(800, TotalHeight10(EstimatedLineCount(text))) \div 10

\* ActionPopup.tsx:77-98, heights in tenths of a pixel until the final floor
FinalHeight(text, screenHeight) ==
    LET maxHeight == (screenHeight * 8) \div 10
        totalHeight10 == TotalHeight10(EstimatedLineCount(text))
    IN Max(800, Min(maxHeight * 10, totalHeight10)) \div 10

\* ActionPopup.tsx:69, 100 invoke("adjust_window_size", {label, width, height})
AdjustWindowSize(w, h) ==
    [cmd |-> "adjust_window_size", label |-> "popup", width |-> w, height |-> h]

\* a resize that widens the window for a text with a long line
ResizeEffectWidens(result) ==
    IF result # None
    THEN <<AdjustWindowSize(IF \E i \in DOMAIN result[1].result :
                                   result[1].result[i] > 10
                            THEN 600 ELSE 500,
                            FinalHeight(result[1].result, availHeight))>>
    ELSE <<>>

\* ActionPopup.tsx:74-102 the resize effect, run when aiResult has changed
ResizeEffect(result) ==
    IF result # None
    THEN <<AdjustWindowSize(500, FinalHeight(result[1].result, availHeight))>>
    ELSE <<>>

\* ActionPopup.tsx:58-71 the reset effect, run when the props have changed
ResetEffect(initialAiResult) ==
    IF initialAiResult = None THEN <<AdjustWindowSize(500, 64)>> ELSE <<>>

\* a reset that leaves the keyboard index as it was
ResetStateKeepsIndex(initialAiResult) ==
    [aiResult |-> initialAiResult, loading |-> FALSE, copied |-> FALSE,
     selectedIndex |-> selectedIndex]

\* a reset that leaves the spinner as it was
ResetStateKeepsLoading(initialAiResult) ==
    [aiResult |-> initialAiResult, loading |-> loading, copied |-> FALSE,
     selectedIndex |-> 0]

\* ActionPopup.tsx:60-63 the state the reset effect sets
ResetState(initialAiResult) ==
    [aiResult |-> initialAiResult, loading |-> FALSE, copied |-> FALSE,
     selectedIndex |-> 0]

\* the ActionPopup component is rendered (App.tsx:192) in a shown window
Mounted == popupData # None /\ Len(popupData[1].actions) > 0
Interactive == Mounted /\ visible
actions == popupData[1].actions

\* App.tsx:42-48 and ActionPopup.tsx:51-71: the popup window receives
\* trigger-selection, stores it and ActionPopup resets to the new props
ReceiveTriggerSelection ==
    /\ chan # <<>>
    /\ LET m == Head(chan) IN
        /\ popupData' = Some(m)
        /\ aiResult' = ResetState(m.aiResult).aiResult
        /\ loading' = ResetState(m.aiResult).loading
        /\ copied' = ResetState(m.aiResult).copied
        /\ selectedIndex' = ResetState(m.aiResult).selectedIndex
        /\ gen' = gen + 1
        /\ resultGen' = gen + 1
        /\ out' = ResetEffect(m.aiResult) \o ResizeEffect(m.aiResult)
    /\ chan' = Tail(chan)
    /\ UNCHANGED <<visible, closedBy, calls, timers>>
    /\ UNCHANGED mainVars

\* getCurrentWindow().hide()
Hide(cause) ==
    /\ visible' = FALSE
    /\ closedBy' = cause

OpenKinds == {"url", "path", "doi_scihub"}
TransformKinds == {"local_format", "ai_translate", "ai_summarize", "ai_process", "script"}
\* the types for which type.startsWith("ai_") holds
AiPrefixed == {"ai_translate", "ai_summarize", "ai_process", "ai_other"}

\* a suspended handler: the call it awaits and the Session it was started in
Call(type) == [kind |-> type, gen |-> gen]
Pending == BagCardinality(calls)
Add(c) == calls (+) SetToBag({c})
Remove(c) == calls (-) SetToBag({c})

\* the record of a reply to call c: how is "resolved" or "rejected"
Reply(c, how) == [cmd |-> "reply", call |-> c, outcome |-> how]

\* ActionPopup.tsx:210, 221 the state setter of the spinner
SetLoading(v) == [cmd |-> "setLoading", value |-> v]

\* a handleAction whose ai_ branch has no finally: the spinner stays on
HandleActionSpins(type) ==
    IF type \in OpenKinds
    THEN /\ Pending < MaxInFlight
         /\ calls' = Add(Call(type))
         /\ out' = <<>>
         /\ UNCHANGED <<aiResult, loading, resultGen>>
    ELSE IF type \in TransformKinds
    THEN /\ Pending < MaxInFlight
         /\ loading' = TRUE
         /\ calls' = Add(Call(type))
         /\ out' = <<>>
         /\ UNCHANGED <<aiResult, resultGen>>
    ELSE IF type \in AiPrefixed
    THEN /\ loading' = TRUE
         /\ out' = <<SetLoading(TRUE)>>
         /\ UNCHANGED <<aiResult, calls, resultGen>>
    ELSE /\ out' = <<>>
         /\ UNCHANGED <<aiResult, loading, calls, resultGen>>

\* ActionPopup.tsx:148-244 handleAction up to its first await; the ai_
\* branch of a type that is none of the three it knows awaits nothing and
\* runs to its finally in the same step
HandleAction(type) ==
    IF type \in OpenKinds
    THEN /\ Pending < MaxInFlight
         /\ calls' = Add(Call(type))
         /\ out' = <<>>
         /\ UNCHANGED <<aiResult, loading, resultGen>>
    ELSE IF type \in TransformKinds
    THEN /\ Pending < MaxInFlight
         /\ loading' = TRUE
         /\ calls' = Add(Call(type))
         /\ out' = <<>>
         /\ UNCHANGED <<aiResult, resultGen>>
    ELSE IF type \in AiPrefixed
    THEN /\ loading' = FALSE
         /\ out' = <<SetLoading(TRUE), SetLoading(FALSE)>>
         /\ UNCHANGED <<aiResult, calls, resultGen>>
    ELSE /\ out' = <<>>
         /\ UNCHANGED <<aiResult, loading, calls, resultGen>>

\* ActionPopup.tsx:246-254 handleCopy up to its await
HandleCopy ==
    IF aiResult # None
    THEN /\ Pending < MaxInFlight
         /\ calls' = Add(Call("clipboard"))
         /\ out' = <<[cmd |-> "clipboard.writeText", text |-> aiResult[1].result]>>
    ELSE /\ out' = <<>>
         /\ UNCHANGED calls

\* the digit taken as the index itself
DigitIndexOneBased(d) == d

\* ActionPopup.tsx:117 parseInt(e.key) - 1, the 0-based index of a digit
DigitIndex(d) == d - 1

\* ActionPopup.tsx:116-121 a digit key
KeyDigit(d) ==
    /\ Interactive
    /\ IF DigitIndex(d) < Len(actions)
       THEN HandleAction(actions[DigitIndex(d) + 1])
       ELSE /\ out' = <<>>
            /\ UNCHANGED <<aiResult, loading, calls, resultGen>>
    /\ UNCHANGED <<popupData, copied, selectedIndex, visible, closedBy,
                   timers, gen, chan>>
    /\ UNCHANGED mainVars

\* ActionPopup.tsx:123-125
KeyEscape ==
    /\ Interactive
    /\ Hide("user")
    /\ out' = <<>>
    /\ UNCHANGED <<popupData, aiResult, loading, copied, selectedIndex,
                   calls, timers, gen, resultGen, chan>>
    /\ UNCHANGED mainVars

\* ActionPopup.tsx:127-133
KeyEnter ==
    /\ Interactive
    /\ IF aiResult # None
       THEN /\ HandleCopy
            /\ UNCHANGED <<aiResult, loading, resultGen>>
       ELSE IF Len(actions) > 0
       THEN HandleAction(actions[selectedIndex + 1])
       ELSE /\ out' = <<>>
            /\ UNCHANGED <<aiResult, loading, calls, resultGen>>
    /\ UNCHANGED <<popupData, copied, selectedIndex, visible, closedBy,
                   timers, gen, chan>>
    /\ UNCHANGED mainVars

\* ActionPopup.tsx:135-138
KeyArrowLeft ==
    /\ Interactive
    /\ selectedIndex' = Max(0, selectedIndex - 1)
    /\ out' = <<>>
    /\ UNCHANGED <<popupData, aiResult, loading, copied, visible, closedBy,
                   calls, timers, gen, resultGen, chan>>
    /\ UNCHANGED mainVars

\* an ArrowRight that wraps around to the first candidate
KeyArrowRightWraps ==
    /\ Interactive
    /\ selectedIndex' = (selectedIndex + 1) % Len(actions)
    /\ out' = <<>>
    /\ UNCHANGED <<popupData, aiResult, loading, copied, visible, closedBy,
                   calls, timers, gen, resultGen, chan>>
    /\ UNCHANGED mainVars

\* ActionPopup.tsx:139-142
KeyArrowRight ==
    /\ Interactive
    /\ selectedIndex' = Min(Len(actions) - 1, selectedIndex + 1)
    /\ out' = <<>>
    /\ UNCHANGED <<popupData, aiResult, loading, copied, visible, closedBy,
                   calls, timers, gen, resultGen, chan>>
    /\ UNCHANGED mainVars

\* ActionPopup.tsx:365-374: the action buttons exist in the selection view
\* only and are disabled (and covered by the spinner) while loading
ButtonsEnabled == Interactive /\ aiResult = None /\ ~loading

\* ActionPopup.tsx:368 onClick of an action button (i is 0-based)
ClickAction ==
    /\ ButtonsEnabled
    /\ \E i \in 0..(Len(actions) - 1) : HandleAction(actions[i + 1])
    /\ UNCHANGED <<popupData, copied, selectedIndex, visible, closedBy,
                   timers, gen, chan>>
    /\ UNCHANGED mainVars

\* ActionPopup.tsx:369-372 onMouseEnter of an action button
MouseEnter ==
    /\ ButtonsEnabled
    /\ \E i \in 0..(Len(actions) - 1) : selectedIndex' = i
    /\ out' = <<>>
    /\ UNCHANGED <<popupData, aiResult, loading, copied, visible, closedBy,
                   calls, timers, gen, resultGen, chan>>
    /\ UNCHANGED mainVars

\* ActionPopup.tsx:308-309 onClick of the copy button of the result view
ClickCopy ==
    /\ Interactive
    /\ aiResult # None
    /\ HandleCopy
    /\ UNCHANGED <<popupData, aiResult, loading, copied, selectedIndex,
                   visible, closedBy, timers, gen, resultGen, chan>>
    /\ UNCHANGED mainVars

\* ActionPopup.tsx:106-108 the window loses focus
Blur ==
    /\ Interactive
    /\ Hide("user")
    /\ out' = <<>>
    /\ UNCHANGED <<popupData, aiResult, loading, copied, selectedIndex,
                   calls, timers, gen, resultGen, chan>>
    /\ UNCHANGED mainVars

\* ActionPopup.tsx:178-179, 181-182, 198-199: the opener replied, hide
OpenResolves(c) ==
    /\ c \in BagToSet(calls)
    /\ c.kind \in OpenKinds
    /\ calls' = Remove(c)
    /\ Hide("other")
    /\ out' = <<Reply(c, "resolved")>>
    /\ UNCHANGED <<popupData, aiResult, loading, copied, selectedIndex,
                   timers, gen, resultGen, chan>>
    /\ UNCHANGED mainVars

\* the opener rejected: handleAction ends with the exception
OpenRejects(c) ==
    /\ c \in BagToSet(calls)
    /\ c.kind \in OpenKinds
    /\ calls' = Remove(c)
    /\ out' = <<Reply(c, "rejected")>>
    /\ UNCHANGED <<popupData, aiResult, loading, copied, selectedIndex,
                   visible, closedBy, timers, gen, resultGen, chan>>
    /\ UNCHANGED mainVars

\* a reply whose result is never displayed
NeverApplies(call, res) == FALSE

\* ActionPopup.tsx:205, 220, 232: if (res) setAiResult(res)
Applies(call, res) == res # None

\* what the external transform of an action of this kind can resolve with
Results(kind) == {None} \cup {Some(AiResult(t, kind)) : t \in ResultTexts}

AllResults == UNION {Results(kind) : kind \in TransformKinds}

\* a reply handler that turns the spinner off only when it sets a result
TransformResolvesEmptySpins(c, res) ==
    /\ c \in BagToSet(calls)
    /\ c.kind \in TransformKinds
    /\ res \in Results(c.kind)
    /\ calls' = Remove(c)
    /\ IF Applies(c, res)
       THEN /\ aiResult' = res
            /\ resultGen' = c.gen
            /\ loading' = FALSE
            /\ out' = <<Reply(c, "resolved")>> \o ResizeEffect(res)
       ELSE /\ out' = <<Reply(c, "resolved")>>
            /\ UNCHANGED <<aiResult, resultGen, loading>>
    /\ UNCHANGED <<popupData, copied, selectedIndex, visible, closedBy,
                   timers, gen, chan>>
    /\ UNCHANGED mainVars

\* ActionPopup.tsx:204-208, 214-223, 227-242: the transform resolved with res
TransformResolves(c, res) ==
    /\ c \in BagToSet(calls)
    /\ c.kind \in TransformKinds
    /\ res \in Results(c.kind)
    /\ calls' = Remove(c)
    /\ IF Applies(c, res)
       THEN /\ aiResult' = res
            /\ resultGen' = c.gen
            /\ out' = <<Reply(c, "resolved")>> \o ResizeEffect(res)
       ELSE /\ out' = <<Reply(c, "resolved")>>
            /\ UNCHANGED <<aiResult, resultGen>>
    /\ loading' = FALSE
    /\ UNCHANGED <<popupData, copied, selectedIndex, visible, closedBy,
                   timers, gen, chan>>
    /\ UNCHANGED mainVars

\* what an external transform can reject with: String(e) as line lengths
ErrorMessages == { <<20>>, <<5, 3>> }

\* an error result that leaves the message of the failure out
ScriptErrorBare(e) == AiResult(<<7>>, "error")

\* ActionPopup.tsx:235-239 the error result of a failed script: a banner
\* line of 7 characters, a line break and String(e)
ScriptError(e) == AiResult(<<7>> \o e, "error")

\* every kind reports its failure as a result
AnyKindShowsError(kind) == TRUE

\* ActionPopup.tsx:233-239: only the script branch has a catch clause
ShowsError(kind) == kind = "script"

\* ActionPopup.tsx:206-208, 221-223, 233-242: the transform rejected with e
TransformRejects(c, e) ==
    /\ c \in BagToSet(calls)
    /\ c.kind \in TransformKinds
    /\ calls' = Remove(c)
    /\ IF ShowsError(c.kind)
       THEN /\ aiResult' = Some(ScriptError(e))
            /\ resultGen' = c.gen
            /\ out' = <<Reply(c, "rejected")>> \o ResizeEffect(Some(ScriptError(e)))
       ELSE /\ out' = <<Reply(c, "rejected")>>
            /\ UNCHANGED <<aiResult, resultGen>>
    /\ loading' = FALSE
    /\ UNCHANGED <<popupData, copied, selectedIndex, visible, closedBy,
                   timers, gen, chan>>
    /\ UNCHANGED mainVars

\* ActionPopup.tsx:248-252 writeText resolved: acknowledge, start the timer
ClipboardResolves(c) ==
    /\ c \in BagToSet(calls)
    /\ c.kind = "clipboard"
    /\ Len(timers) < MaxTimers
    /\ calls' = Remove(c)
    /\ copied' = TRUE
    /\ timers' = Append(timers, c.gen)
    /\ out' = <<Reply(c, "resolved")>>
    /\ UNCHANGED <<popupData, aiResult, loading, selectedIndex, visible,
                   closedBy, gen, resultGen, chan>>
    /\ UNCHANGED mainVars

\* writeText rejected: handleCopy ends with the exception
ClipboardRejects(c) ==
    /\ c \in BagToSet(calls)
    /\ c.kind = "clipboard"
    /\ calls' = Remove(c)
    /\ out' = <<Reply(c, "rejected")>>
    /\ UNCHANGED <<popupData, aiResult, loading, copied, selectedIndex,
                   visible, closedBy, timers, gen, resultGen, chan>>
    /\ UNCHANGED mainVars

\* ActionPopup.tsx:250-252 the 300 ms timer of handleCopy fires
TimerFires ==
    /\ timers # <<>>
    /\ timers' = Tail(timers)
    /\ Hide("other")
    /\ out' = <<>>
    /\ UNCHANGED <<popupData, aiResult, loading, copied, selectedIndex,
                   calls, gen, resultGen, chan>>
    /\ UNCHANGED mainVars

PopupNext ==
    \/ ReceiveTriggerSelection
    \/ \E d \in 1..9 : KeyDigit(d)
    \/ KeyEscape
    \/ KeyEnter
    \/ KeyArrowLeft
    \/ KeyArrowRight
    \/ ClickAction
    \/ MouseEnter
    \/ ClickCopy
    \/ Blur
    \/ \E c \in BagToSet(calls) : OpenResolves(c)
    \/ \E c \in BagToSet(calls) : OpenRejects(c)
    \/ \E c \in BagToSet(calls), res \in AllResults : TransformResolves(c, res)
    \/ \E c \in BagToSet(calls), e \in ErrorMessages : TransformRejects(c, e)
    \/ \E c \in BagToSet(calls) : ClipboardResolves(c)
    \/ \E c \in BagToSet(calls) : ClipboardRejects(c)
    \/ TimerFires

Next == MainNext \/ PopupNext

\* the two windows together
Spec == Init /\ [][Next]_vars

\* the pipeline controller alone: the main window never reads what the
\* popup window writes
Controller == Init /\ [][MainNext]_vars

\* ------------------------------------------------- sizing of the result

\* available heights of displays, among them ones whose 80% is less than
\* the minimum footprint of the overlay
DisplayHeights == {50, 99, 100, 101, 768, 1080, 2456, 3000}

\* result texts as line lengths: empty and short lines, lines at and past
\* the wrap width of 55, long single lines and texts of several lines
SizingTexts ==
    { <<n>> : n \in {0, 1, 55, 56, 3000, 4675} }
    \cup { <<a, b>> : a, b \in {0, 55, 56} }

\* the overlay of one Session on a display of any of the heights
SizingInit ==
    /\ isProcessing = FALSE
    /\ runs = [l \in Listeners |-> IdleRun]
    /\ inbox = [l \in Listeners |-> <<>>]
    /\ nTriggers = 0
    /\ flight = [proc |-> 0, show |-> 0, emit |-> 0]
    /\ lastCycle = <<>>
    /\ chan = <<>>
    /\ popupData = Some([actions |-> <<"local_format">>, capturedText |-> "t1",
                         aiResult |-> None])
    /\ aiResult = None
    /\ loading = FALSE
    /\ copied = FALSE
    /\ selectedIndex = 0
    /\ visible = TRUE
    /\ closedBy = "none"
    /\ calls = EmptyBag
    /\ timers = <<>>
    /\ gen = 1
    /\ resultGen = 1
    /\ availHeight \in DisplayHeights
    /\ matcher = NoMatch
    /\ other = NoOther
    /\ out = <<>>

\* ActionPopup.tsx:205 and 74-102: setAiResult(res) and the resize effect
\* that the change of aiResult runs
SetAiResult ==
    /\ Mounted
    /\ \E t \in SizingTexts :
          /\ EstimatedLineCount(t) <= MaxEstimatedLines
          /\ aiResult' = Some(AiResult(t, "local_format"))
          /\ out' = ResizeEffect(Some(AiResult(t, "local_format")))
    /\ UNCHANGED <<popupData, loading, copied, selectedIndex, visible,
                   closedBy, calls, timers, gen, resultGen, chan>>
    /\ UNCHANGED mainVars

\* the resize effect alone, over texts and display heights
Sizing == SizingInit /\ [][SetAiResult]_vars

\* ------------------------------------------------------- url actions

\* a string is the sequence of its characters
Placeholder == <<"$", "{", "0", "}">>

Digits == {"0", "1", "2", "3", "4", "5", "6", "7", "8", "9"}
Letters == {"a", "b", "c", "d", "e", "f", "g", "h", "i", "j", "k", "l", "m",
            "n", "o", "p", "q", "r", "s", "t", "u", "v", "w", "x", "y", "z"}

\* the characters encodeURIComponent leaves as they are
Unreserved == Letters \cup Digits \cup {"-", "_", ".", "!", "~", "*", "'", "(", ")"}

\* the two hexadecimal digits of the UTF-8 byte of an ASCII character that
\* is escaped
HexOf(ch) ==
    CASE ch = " " -> <<"2", "0">>
      [] ch = "#" -> <<"2", "3">>
      [] ch = "$" -> <<"2", "4">>
      [] ch = "&" -> <<"2", "6">>
      [] ch = "/" -> <<"2", "F">>
      [] ch = ":" -> <<"3", "A">>
      [] ch = "=" -> <<"3", "D">>
      [] ch = "?" -> <<"3", "F">>
      [] ch = "{" -> <<"7", "B">>
      [] ch = "}" -> <<"7", "D">>

\* encodeURIComponent of one character
EncodeChar(ch) == IF ch \in Unreserved THEN <<ch>> ELSE <<"%">> \o HexOf(ch)

RECURSIVE EncodeURIComponent(_)
\* ActionPopup.tsx:175 encodeURIComponent(targetText)
EncodeURIComponent(s) ==
    IF s = <<>> THEN <<>>
    ELSE EncodeChar(Head(s)) \o EncodeURIComponent(Tail(s))

\* s.indexOf(sub) + 1: the first position where sub occurs in s, else 0
IndexOf(sub, s) ==
    LET hits == {i \in 1..(Len(s) - Len(sub) + 1) :
                    SubSeq(s, i, i + Len(sub) - 1) = sub}
    IN IF hits = {} THEN 0 ELSE CHOOSE i \in hits : \A j \in hits : i <= j

\* ActionPopup.tsx:175 s.replace(sub, by) with a string pattern and a
\* replacement without "$": the first occurrence only
ReplaceFirst(s, sub, by) ==
    LET i == IndexOf(sub, s)
    IN IF i = 0 THEN s
       ELSE SubSeq(s, 1, i - 1) \o by \o SubSeq(s, i + Len(sub), Len(s))

\* extraction patterns: \d+, a literal string, and a source that is not a
\* regular expression, such as "("
Patterns ==
    { [kind |-> "digits", lit |-> <<>>],
      [kind |-> "literal", lit |-> <<"z", "z">>],
      [kind |-> "literal", lit |-> <<>>],
      [kind |-> "malformed", lit |-> <<"(">>] }

\* ActionPopup.tsx:155 the test of action.trigger?.extraction_pattern: an
\* absent pattern and the empty string are both falsy
HasPattern(p) == p # None /\ ~(p[1].kind = "literal" /\ p[1].lit = <<>>)

\* ActionPopup.tsx:158 new RegExp(pattern) returns instead of throwing
Compiles(p) == p.kind # "malformed"

\* ActionPopup.tsx:159 targetText.match(regex) without the g flag: the
\* leftmost match, for \d+ the longest run of digits starting there
FirstMatch(p, text) ==
    IF p.kind = "digits"
    THEN LET starts == {i \in DOMAIN text : text[i] \in Digits}
         IN IF starts = {} THEN None
            ELSE LET i == CHOOSE k \in starts : \A j \in starts : k <= j
                     ends == {k \in i..Len(text) :
                                 \A j \in i..k : text[j] \in Digits}
                     e == CHOOSE k \in ends : \A j \in ends : j <= k
                 IN Some(SubSeq(text, i, e))
    ELSE IF IndexOf(p.lit, text) = 0 THEN None ELSE Some(p.lit)

\* an extraction without the fallback to the captured text
TargetTextOrEmpty(action, capturedText) ==
    LET p == action.extraction_pattern
    IN IF HasPattern(p) /\ Compiles(p[1]) /\ FirstMatch(p[1], capturedText) # None
       THEN FirstMatch(p[1], capturedText)[1]
       ELSE <<>>

\* ActionPopup.tsx:154-168 targetText: the first match of the extraction
\* pattern, else (no pattern, exception caught, no match) the captured text
TargetText(action, capturedText) ==
    LET p == action.extraction_pattern
    IN IF HasPattern(p) /\ Compiles(p[1]) /\ FirstMatch(p[1], capturedText) # None
       THEN FirstMatch(p[1], capturedText)[1]
       ELSE capturedText

\* a url that is percent-encoded for every template
UrlAlwaysEncoded(action, capturedText) ==
    ReplaceFirst(action.template, Placeholder,
                 EncodeURIComponent(TargetText(action, capturedText)))

\* ActionPopup.tsx:170-176 the url handed to open_url
Url(action, capturedText) ==
    IF action.template = Placeholder
    THEN TargetText(action, capturedText)
    ELSE ReplaceFirst(action.template, Placeholder,
                      EncodeURIComponent(TargetText(action, capturedText)))

Templates ==
    { Placeholder,
      <<"h", "t", "t", "p", "s", ":", "/", "/", "x", ".", "c", "o", "m", "/",
        "s", "?", "q", "=", "$", "{", "0", "}">>,
      <<"x", "/", "$", "{", "0", "}", "?", "q", "=", "$", "{", "0", "}">>,
      <<"h", "t", "t", "p", "s", ":", "/", "/", "x", ".", "c", "o", "m", "/">>,
      <<"$", "{", "0", "}", " ">> }

CapturedTexts ==
    { <<"a", " ", "b">>,
      <<"o", "r", "d", "e", "r", " ", "#", "4", "8", "2", "1", " ",
        "r", "e", "a", "d", "y">>,
      <<"a", "&", "b">>,
      <<"7", " ", "1", "2">> }

\* the url actions of the rules: a template and an optional pattern
UrlActions ==
    { [type |-> "url", template |-> t, extraction_pattern |-> p] :
        t \in Templates, p \in {None} \cup {Some(q) : q \in Patterns} }

\* the overlay of one Session whose only candidate is a url action
UrlInit ==
    /\ isProcessing = FALSE
    /\ runs = [l \in Listeners |-> IdleRun]
    /\ inbox = [l \in Listeners |-> <<>>]
    /\ nTriggers = 0
    /\ flight = [proc |-> 0, show |-> 0, emit |-> 0]
    /\ lastCycle = <<>>
    /\ chan = <<>>
    /\ \E a \in UrlActions, text \in CapturedTexts :
          popupData = Some([actions |-> <<a>>, capturedText |-> text,
                            aiResult |-> None])
    /\ aiResult = None
    /\ loading = FALSE
    /\ copied = FALSE
    /\ selectedIndex = 0
    /\ visible = TRUE
    /\ closedBy = "none"
    /\ calls = EmptyBag
    /\ timers = <<>>
    /\ gen = 1
    /\ resultGen = 1
    /\ availHeight = AvailHeight
    /\ matcher = NoMatch
    /\ other = NoOther
    /\ out = <<>>

\* ActionPopup.tsx:178 invoke("open_url", { url })
OpenUrl(url) == [cmd |-> "open_url", url |-> url]

\* ActionPopup.tsx:151-178 handleAction of the url candidate up to its await
HandleUrlAction ==
    /\ Interactive
    /\ aiResult = None /\ ~loading
    /\ Pending < MaxInFlight
    /\ calls' = Add(Call("url"))
    /\ out' = <<OpenUrl(Url(actions[1], popupData[1].capturedText))>>
    /\ UNCHANGED <<popupData, aiResult, loading, copied, selectedIndex,
                   visible, closedBy, timers, gen, resultGen, chan>>
    /\ UNCHANGED mainVars

UrlNext ==
    \/ HandleUrlAction
    \/ \E c \in BagToSet(calls) : OpenResolves(c)
    \/ \E c \in BagToSet(calls) : OpenRejects(c)

\* the url branch of handleAction alone, over templates, patterns and texts
UrlOpen == UrlInit /\ [][UrlNext]_vars

\* ------------------------------------------------------- the Rule Matcher

\* the largest rule set matched
MaxRules == 3

\* the canonical form of an application identifier or keyword: lower case
LowerChar(ch) ==
    CASE ch = "B" -> "b"
      [] ch = "C" -> "c"
      [] OTHER -> ch

ToLower(s) == [i \in DOMAIN s |-> LowerChar(s[i])]

\* scope.include against context.appId: "*" matches any application, an
\* identifier matches itself whatever its case
ScopeIncludes(rule, appId) ==
    \E g \in rule.scope.include : g = <<"*">> \/ ToLower(g) = ToLower(appId)

\* the trigger of a rule against the text: a regex must compile and match
\* somewhere, a keyword must be contained whatever its case, a context
\* trigger never matches
TriggerMatches(trigger, text) ==
    CASE trigger.kind = "regex" ->
             /\ Compiles(trigger.pattern)
             /\ FirstMatch(trigger.pattern, text) # None
      [] trigger.kind = "keyword" ->
             IndexOf(ToLower(trigger.pattern.lit), ToLower(text)) # 0
      [] OTHER -> FALSE

\* steps (1) and (2) of the algorithm for one rule
Passes(rule, appId, text) ==
    /\ ScopeIncludes(rule, appId)
    /\ TriggerMatches(rule.trigger, text)

\* the rules that pass, by their position in the rule set, in declaration
\* order
RECURSIVE Passing(_, _, _, _)
Passing(n, rules, appId, text) ==
    IF n = 0 THEN <<>>
    ELSE Passing(n - 1, rules, appId, text)
            \o (IF Passes(rules[n], appId, text) THEN <<n>> ELSE <<>>)

\* an insertion that puts a rule before the rules of its own priority
InsertBeforeTies(i, sorted, rules) ==
    LET k == Cardinality({j \in DOMAIN sorted :
                 rules[sorted[j]].scope.priority > rules[i].scope.priority})
    IN SubSeq(sorted, 1, k) \o <<i>> \o SubSeq(sorted, k + 1, Len(sorted))

\* rule i put into a sequence sorted by priority descending, behind every
\* rule of the same or a higher priority
InsertByPriority(i, sorted, rules) ==
    LET k == Cardinality({j \in DOMAIN sorted :
                 rules[sorted[j]].scope.priority >= rules[i].scope.priority})
    IN SubSeq(sorted, 1, k) \o <<i>> \o SubSeq(sorted, k + 1, Len(sorted))

\* step (3): sort by scope.priority descending, declaration order as the
\* tiebreak
RECURSIVE SortByPriority(_, _)
SortByPriority(ids, rules) ==
    IF ids = <<>> THEN <<>>
    ELSE InsertByPriority(ids[Len(ids)],
                          SortByPriority(SubSeq(ids, 1, Len(ids) - 1), rules),
                          rules)

\* empty or whitespace-only text
Blank(text) == \A i \in DOMAIN text : text[i] = " "

\* a match that gives up at the first pattern that does not compile
MatchAborts(appId, text, rules) ==
    IF Blank(text) THEN <<>>
    ELSE IF \E i \in DOMAIN rules :
               rules[i].trigger.kind = "regex" /\ ~Compiles(rules[i].trigger.pattern)
    THEN <<>>
    ELSE SortByPriority(Passing(Len(rules), rules, appId, text), rules)

\* match(context, rules) -> MatchResult, as positions in the rule set
Match(appId, text, rules) ==
    IF Blank(text) THEN <<>>
    ELSE SortByPriority(Passing(Len(rules), rules, appId, text), rules)

\* scope.priority values of the rules
Priorities == {1, 3, 5}

\* scope and trigger of the rules: regex triggers that match digits, match
\* a literal and do not compile, a keyword in another case than the text, a
\* context trigger, and a scope that names another application
RuleShapes ==
    { [include |-> {<<"*">>},
       trigger |-> [kind |-> "regex", pattern |-> [kind |-> "digits", lit |-> <<>>]]],
      [include |-> {<<"*">>},
       trigger |-> [kind |-> "regex", pattern |-> [kind |-> "literal", lit |-> <<"b">>]]],
      [include |-> {<<"*">>},
       trigger |-> [kind |-> "regex", pattern |-> [kind |-> "malformed", lit |-> <<"(">>]]],
      [include |-> {<<"C">>},
       trigger |-> [kind |-> "keyword", pattern |-> [kind |-> "literal", lit |-> <<"B">>]]],
      [include |-> {<<"*">>},
       trigger |-> [kind |-> "context", pattern |-> [kind |-> "literal", lit |-> <<"b">>]]],
      [include |-> {<<"x">>},
       trigger |-> [kind |-> "regex", pattern |-> [kind |-> "digits", lit |-> <<>>]]] }

Rules ==
    { [scope |-> [include |-> s.include, priority |-> p], trigger |-> s.trigger] :
        s \in RuleShapes, p \in Priorities }

\* rule sets in declaration order
RuleSets == UNION { [1..n -> Rules] : n \in 0..MaxRules }

\* captured texts: with digits, with a "b", and whitespace only
MatchTexts == { <<"7", " ", "1", "2">>, <<"a", " ", "b">>, <<" ">> }

\* the matcher before a match of a capture in the application "c"
MatchInit ==
    /\ isProcessing = FALSE
    /\ runs = [l \in Listeners |-> IdleRun]
    /\ inbox = [l \in Listeners |-> <<>>]
    /\ nTriggers = 0
    /\ flight = [proc |-> 0, show |-> 0, emit |-> 0]
    /\ lastCycle = <<>>
    /\ chan = <<>>
    /\ popupData = None
    /\ aiResult = None
    /\ loading = FALSE
    /\ copied = FALSE
    /\ selectedIndex = 0
    /\ visible = FALSE
    /\ closedBy = "other"
    /\ calls = EmptyBag
    /\ timers = <<>>
    /\ gen = 0
    /\ resultGen = 0
    /\ availHeight = AvailHeight
    /\ \E t \in MatchTexts, rs \in RuleSets :
          matcher = [appId |-> <<"c">>, text |-> t, rules |-> rs, result |-> None]
    /\ other = NoOther
    /\ out = <<>>

\* the Rule Matcher runs on the capture
RunMatch ==
    /\ matcher.result = None
    /\ matcher' = [matcher EXCEPT
                      !.result = Some(Match(matcher.appId, matcher.text,
                                            matcher.rules))]
    /\ UNCHANGED <<isProcessing, runs, inbox, nTriggers, flight, lastCycle,
                   chan, popupData, aiResult, loading, copied, selectedIndex,
                   visible, closedBy, calls, timers, gen, resultGen,
                   availHeight, other, out>>

\* the Rule Matcher alone, over rule sets and captured texts
Matching == MatchInit /\ [][RunMatch]_vars

\* --------------------------------------------- the two windows' listeners

\* a backup listener without the test of the window label
AnyWindowHandlesSpotlight(label) == TRUE

\* App.tsx:152-155 the backup listener returns unless the window is main
\* (the primary one is registered in main only, App.tsx:102-105)
HandlesSpotlight(label) == label = "main"

\* a trigger-selection listener without the test of the window label
AnyWindowHandlesSelection(label) == TRUE

\* App.tsx:45 only the popup window stores a trigger-selection payload
HandlesSelection(label) == label = "popup"

\* the backend emits trigger-spotlight to every window: to the two
\* listeners of the main window and to the backup listener of the popup
\* window
EmitSpotlightAll ==
    /\ nTriggers < MaxTriggers
    /\ \E p \in SpotlightPayloads :
          /\ inbox' = [l \in Listeners |-> Append(inbox[l], p)]
          /\ other' = [other EXCEPT !.spotlight = Append(@, p)]
    /\ nTriggers' = nTriggers + 1
    /\ out' = <<>>
    /\ UNCHANGED <<isProcessing, runs, flight, lastCycle, chan, visible>>
    /\ UNCHANGED <<popupData, aiResult, loading, copied, selectedIndex,
                   closedBy, calls, timers, gen, resultGen, availHeight,
                   matcher>>

\* App.tsx:147-167 the backup listener of the popup window takes a delivery
SpotlightInPopup ==
    /\ other.spotlight # <<>>
    /\ other' = [other EXCEPT
                    !.spotlight = Tail(@),
                    !.proc = IF HandlesSpotlight("popup") THEN @ + 1 ELSE @]
    /\ out' = <<>>
    /\ UNCHANGED <<isProcessing, runs, inbox, nTriggers, flight, lastCycle,
                   chan, popupData, aiResult, loading, copied, selectedIndex,
                   visible, closedBy, calls, timers, gen, resultGen,
                   availHeight, matcher>>

\* App.tsx:87 emit resolves: the message is on its way to every window
EmitResolvesAll(l) ==
    /\ runs[l].pc = "awaitEmit"
    /\ chan' = Append(chan, Payload(runs[l].res[1]))
    /\ other' = [other EXCEPT !.selection = Append(@, Payload(runs[l].res[1]))]
    /\ Finish(l, "published", <<"done:emit">>)
    /\ out' = <<>>
    /\ UNCHANGED <<inbox, nTriggers, visible>>
    /\ UNCHANGED <<popupData, aiResult, loading, copied, selectedIndex,
                   closedBy, calls, timers, gen, resultGen, availHeight,
                   matcher>>

\* App.tsx:42-48 the trigger-selection listener of the main window
SelectionInMain ==
    /\ other.selection # <<>>
    /\ other' = [other EXCEPT
                    !.selection = Tail(@),
                    !.popupData = IF HandlesSelection("main")
                                  THEN Some(Head(other.selection))
                                  ELSE @]
    /\ out' = <<>>
    /\ UNCHANGED <<isProcessing, runs, inbox, nTriggers, flight, lastCycle,
                   chan, popupData, aiResult, loading, copied, selectedIndex,
                   visible, closedBy, calls, timers, gen, resultGen,
                   availHeight, matcher>>

RolesNext ==
    \/ EmitSpotlightAll
    \/ SpotlightPrimary
    \/ SpotlightBackup
    \/ SpotlightInPopup
    \/ \E l \in Listeners : ProcessSelectionResolves(l)
    \/ \E l \in Listeners : ProcessSelectionRejects(l)
    \/ \E l \in Listeners : SetPopupPositionResolves(l)
    \/ \E l \in Listeners : SetPopupPositionRejects(l)
    \/ \E l \in Listeners : SetWindowVisibilityResolves(l)
    \/ \E l \in Listeners : SetWindowVisibilityRejects(l)
    \/ \E l \in Listeners : EmitResolvesAll(l)
    \/ \E l \in Listeners : EmitRejects(l)
    \/ ReceiveTriggerSelection
    \/ SelectionInMain

\* both events as every window receives them, without the user's input
Roles == Init /\ [][RolesNext]_vars

\* ------------------------------------------------------------------ claims

Range(s) == {s[i] : i \in DOMAIN s}
Last(s) == s[Len(s)]
IsPrefix(s, t) == Len(s) <= Len(t) /\ SubSeq(t, 1, Len(s)) = s

\* the log of a cycle with a non-empty match result that was published
PublishedCycle ==
    <<"call:process_selection", "done:process_selection", "result:some",
      "call:set_popup_position", "done:set_popup_position",
      "call:set_window_visibility", "done:set_window_visibility",
      "call:emit", "done:emit", "published">>

\* the log of a cycle whose match result was empty
EmptyCycle ==
    <<"call:process_selection", "done:process_selection", "result:empty",
      "nothing">>

\* C1: while one trigger cycle is in flight no second one runs: since the
\* controller was last idle there is exactly one process_selection call, at
\* most one set_window_visibility call and at most one publication; a call
\* that found the flag set has started nothing, and process_selection is
\* only ever invoked in the step of a trigger call that found the flag free.
C1_SingleFlight ==
    /\ [](/\ Cardinality({l \in Listeners : InFlight(l)}) <= 1
          /\ AnyInFlight => flight.proc = 1
          /\ flight.proc <= 1 /\ flight.show <= 1 /\ flight.emit <= 1)
    /\ [][flight'.proc > flight.proc =>
            /\ ~isProcessing
            /\ \E l \in Listeners : inbox[l] # <<>> /\ inbox'[l] = Tail(inbox[l])
         ]_vars

\* C1 witness: the second listener's call for the same event arrived while
\* the first cycle was in flight and was dropped; the first cycle went on
C1_Witness ==
    /\ nTriggers = 1
    /\ inbox["primary"] = <<>> /\ inbox["backup"] = <<>>
    /\ lastCycle = <<>>
    /\ runs["primary"].pc = "awaitEmit"
    /\ runs["backup"].pc = "idle"

\* C2: the busy flag is set exactly while a cycle is in flight: after every
\* finished cycle (published, nothing to show, or any rejection) it is false
C2_FlagReleased ==
    /\ isProcessing <=> AnyInFlight
    /\ (lastCycle # <<>> /\ ~AnyInFlight) => ~isProcessing

\* C2 witness: a cycle ended by the rejection of emit and the next trigger
\* call was accepted
C2_Witness ==
    /\ lastCycle # <<>>
    /\ Last(lastCycle) = "rejected"
    /\ "fail:emit" \in Range(lastCycle)
    /\ AnyInFlight
    /\ isProcessing

\* C8: a cycle whose match result is empty calls process_selection and
\* nothing else, publishes nothing and ends without an error
C8_EmptyDoesNothing ==
    /\ \A l \in Listeners : "result:empty" \notin Range(runs[l].log)
    /\ (lastCycle # <<>> /\ "result:empty" \in Range(lastCycle))
          => lastCycle = EmptyCycle

\* C8 witness: a cycle with an empty match result has finished and nothing
\* was shown or published
C8_Witness ==
    /\ lastCycle = EmptyCycle
    /\ ~visible
    /\ chan = <<>>
    /\ ~isProcessing

\* C9: the steps of a cycle happen in the order position, show, publish,
\* each after the one before has completed
C9_StepOrder ==
    /\ \A l \in Listeners :
          InFlight(l) /\ "result:some" \in Range(runs[l].log)
              => IsPrefix(runs[l].log, PublishedCycle)
    /\ (lastCycle # <<>> /\ Last(lastCycle) = "published")
          => lastCycle = PublishedCycle
    /\ \A l \in Listeners :
          runs[l].pc = "awaitEmit" =>
              "done:set_window_visibility" \in Range(runs[l].log)

\* C9 witness: a cycle has positioned the overlay, shown it and published
C9_Witness ==
    /\ lastCycle = PublishedCycle
    /\ visible
    /\ Len(chan) = 1

\* this step is a handleAction call that invokes an external service
DispatchStarted ==
    \E c \in BagToSet(calls') :
        /\ c.kind \in OpenKinds \cup TransformKinds
        /\ calls' = calls (+) SetToBag({c})

\* this step is the reply to a transform dispatched in the current Session
CurrentTransformReplied ==
    \E c \in BagToSet(calls) :
        /\ c.kind \in TransformKinds
        /\ c.gen = gen
        /\ calls' = calls (-) SetToBag({c})

\* this step is the receipt of a trigger-selection message
Received == gen' = gen + 1

\* the overlay is in Executing, ShowingResult or Closed
NotAwaitingSelection == Mounted /\ (loading \/ aiResult # None \/ ~visible)

NoResize(o) == \A i \in DOMAIN o : o[i].cmd # "adjust_window_size"

\* C3: the result the overlay displays was produced by the Session it
\* displays: a reply to a dispatch of an earlier Session is dropped
C3_StaleResultDropped ==
    aiResult # None => resultGen = gen

\* C4: a reply that arrives after the overlay was closed by Escape or blur
\* neither sets the result nor resizes the window
C4_ResultAfterCloseDropped ==
    [][(closedBy = "user" /\ CurrentTransformReplied)
          => (aiResult' = aiResult /\ NoResize(out'))]_vars

\* C5: while the overlay is Executing (loading) no handleAction call starts
\* a second external call
C5_NoDispatchWhileExecuting ==
    [][loading => ~DispatchStarted]_vars

\* C6: while a result is displayed no key or pointer event dispatches an
\* action
C6_NoDispatchInShowingResult ==
    [][(Mounted /\ aiResult # None) => ~DispatchStarted]_vars

\* C7 as stated: a message received in Executing, ShowingResult or Closed
\* restarts the overlay with the new candidates, index 0, no result, not
\* loading, acknowledgement cleared
C7_ReentryNoResult ==
    [][(Received /\ NotAwaitingSelection) =>
          /\ popupData' = Some(Head(chan))
          /\ selectedIndex' = 0
          /\ aiResult' = None
          /\ ~loading'
          /\ ~copied']_vars

\* C7 amended: a message received in Executing, ShowingResult or Closed
\* restarts the overlay with the new candidates, index 0, not loading,
\* acknowledgement cleared, and the message's aiResult as the result
C7_Reentry ==
    [][(Received /\ NotAwaitingSelection) =>
          /\ popupData' = Some(Head(chan))
          /\ selectedIndex' = 0
          /\ aiResult' = Head(chan).aiResult
          /\ ~loading'
          /\ ~copied']_vars

\* C7 witness: the second Session has just started while a transform of the
\* first one is still awaited; nothing of the first Session is displayed
C7_Witness ==
    /\ gen = 2
    /\ out = <<AdjustWindowSize(500, 64)>>
    /\ aiResult = None /\ ~loading /\ ~copied /\ selectedIndex = 0
    /\ \E c \in BagToSet(calls) : c.gen = 1 /\ c.kind \in TransformKinds

\* C10 as stated: every published message carries aiResult = null
C10_AlwaysNullResult ==
    /\ \A i \in DOMAIN chan : chan[i].aiResult = None
    /\ popupData # None => popupData[1].aiResult = None

\* C10 amended: a published message carries the ai_result process_selection
\* returned in its cycle, and the Session it opens starts with that value
\* as its result
C10_ResultPassedThrough ==
    [][/\ Len(chan') = Len(chan) + 1 =>
            \E l \in Listeners :
                /\ runs[l].pc = "awaitEmit"
                /\ Last(chan').aiResult = runs[l].res[1].ai_result
       /\ Received => aiResult' = Head(chan).aiResult]_vars

\* C10 witness: a Session opened by a message that carried a result shows
\* that result from its start
C10_Witness ==
    /\ popupData # None
    /\ popupData[1].aiResult # None
    /\ aiResult = popupData[1].aiResult
    /\ resultGen = gen
    /\ BagCardinality(calls) = 0
    /\ out = ResizeEffect(aiResult)

\* the log of a cycle whose process_selection call was rejected
CaptureFailedCycle ==
    <<"call:process_selection", "fail:process_selection", "rejected">>

\* this step ends a cycle at the rejection of process_selection
CaptureFailed ==
    /\ \E l \in Listeners : runs[l].pc = "awaitProcess" /\ runs'[l].pc = "idle"
    /\ "fail:process_selection" \in Range(lastCycle')

\* C11: when process_selection rejects the cycle ends there: the overlay's
\* visibility is left as it was, nothing is published, no further call is
\* made, the rejection is caught (the activation ends as "rejected" and the
\* listener is idle again) and the flag is released
C11_CaptureFailureSilent ==
    /\ [][CaptureFailed =>
            /\ visible' = visible
            /\ chan' = chan
            /\ lastCycle' = CaptureFailedCycle
            /\ ~isProcessing'
            /\ \A l \in Listeners : runs'[l] = IdleRun]_vars
    /\ []("fail:process_selection" \in Range(lastCycle)
            => lastCycle = CaptureFailedCycle)

\* C11 witness: a cycle has ended at the rejection of process_selection;
\* the overlay is hidden, nothing is published and the flag is free
C11_Witness ==
    /\ lastCycle = CaptureFailedCycle
    /\ ~visible
    /\ chan = <<>>
    /\ ~isProcessing
    /\ ~AnyInFlight

\* this step is a handleAction call of a url or path action
OpenDispatched ==
    \E c \in BagToSet(calls') :
        /\ c.kind \in {"url", "path"}
        /\ calls' = calls (+) SetToBag({c})

\* C12: for url and path the overlay is hidden by the dispatch itself, with
\* the open_url / open_path call still outstanding, so whatever becomes of
\* that call
C12_ClosedOnDispatch ==
    [][OpenDispatched => ~visible']_vars

\* s ends with t
IsSuffix(t, s) ==
    /\ Len(t) <= Len(s)
    /\ SubSeq(s, Len(s) - Len(t) + 1, Len(s)) = t

\* C13: when execute_script rejects with e the overlay displays a result of
\* kind "error" whose text is longer than e and ends with e, sized to that
\* text; the window is not hidden by the failure, the candidates stay and
\* the spinner is off
C13_ScriptFailureShown ==
    [][\A c \in BagToSet(calls), e \in ErrorMessages :
          (c.kind = "script" /\ TransformRejects(c, e)) =>
              /\ aiResult' # None
              /\ aiResult'[1].action_type = "error"
              /\ Len(aiResult'[1].result) > Len(e)
              /\ IsSuffix(e, aiResult'[1].result)
              /\ visible' = visible /\ closedBy' = closedBy
              /\ popupData' = popupData
              /\ ~loading'
              /\ ~NoResize(out')]_vars

\* C13 witness: the script of the displayed Session has failed with a
\* two-line message and the overlay shows the error, still open
C13_Witness ==
    /\ Interactive
    /\ aiResult = Some(AiResult(<<7, 5, 3>>, "error"))
    /\ resultGen = gen
    /\ ~loading
    /\ closedBy = "none"
    /\ calls = EmptyBag
    /\ out = <<Reply([kind |-> "script", gen |-> gen], "rejected"),
               AdjustWindowSize(500, 127)>>

\* the overlay displays the candidates and accepts every input
AwaitingSelection == Interactive /\ ~loading /\ aiResult = None

\* the overlay displays the spinner over the candidates
Executing == Interactive /\ loading /\ aiResult = None

\* C14: when the call of a local_format or ai_* action rejects while the
\* overlay is Executing, the overlay is back in AwaitingSelection: same
\* candidates, spinner off, buttons enabled, no result set and no resize
C14_FailureBackToSelection ==
    [][\A c \in BagToSet(calls), e \in ErrorMessages :
          (/\ c.kind \in TransformKinds \ {"script"}
           /\ Executing
           /\ TransformRejects(c, e)) =>
              /\ AwaitingSelection'
              /\ ButtonsEnabled'
              /\ popupData' = popupData
              /\ NoResize(out')]_vars

\* C14 witness: the only dispatch of the displayed Session, ai_translate,
\* has just failed; the candidates are displayed again without a result
C14_Witness ==
    /\ AwaitingSelection
    /\ out = <<Reply([kind |-> "ai_translate", gen |-> gen], "rejected")>>
    /\ calls = EmptyBag
    /\ resultGen = gen
    /\ closedBy = "none"

\* C15: when the call of a transform action dispatched in the displayed
\* Session resolves with a result while the overlay is open, the overlay
\* displays exactly that result, with the spinner off and the window sized
\* to the result's text
C15_ResolveShowsResult ==
    [][\A c \in BagToSet(calls), res \in AllResults :
          (/\ c.gen = gen
           /\ res # None
           /\ Interactive
           /\ TransformResolves(c, res)) =>
              /\ Interactive'
              /\ aiResult' = res
              /\ ~loading'
              /\ \E i \in DOMAIN out' :
                    out'[i] = AdjustWindowSize(500,
                                  FinalHeight(res[1].result, availHeight))]_vars

\* C15 witness: the overlay was Executing local_format and its call has
\* just resolved with a result, which is displayed
C15_Witness ==
    /\ Interactive
    /\ aiResult = Some(AiResult(<<1>>, "local_format"))
    /\ ~loading
    /\ resultGen = gen
    /\ calls = EmptyBag
    /\ out = <<Reply([kind |-> "local_format", gen |-> gen], "resolved"),
               AdjustWindowSize(500, 82)>>

\* C16: Escape and blur hide the window, and from then until the next
\* Session is received nothing acts on the closed Session: its result,
\* spinner, acknowledgement and index stay as they were and the window is
\* not resized
C16_ClosedEndsSession ==
    [][/\ (closedBy # "user" /\ closedBy' = "user") => (visible /\ ~visible')
       /\ (closedBy = "user" /\ ~Received) =>
              /\ aiResult' = aiResult
              /\ loading' = loading
              /\ copied' = copied
              /\ selectedIndex' = selectedIndex
              /\ NoResize(out')]_vars

\* handleAction was called for a candidate of this type and for nothing
\* else: the external call of the type, if it has one, is the one call
\* added, the spinner is on exactly for a transform, nothing else changed
DispatchedExactly(type) ==
    /\ calls' = IF type \in OpenKinds \cup TransformKinds
                THEN calls (+) SetToBag({[kind |-> type, gen |-> gen]})
                ELSE calls
    /\ loading' = (type \in TransformKinds)
    /\ UNCHANGED <<popupData, aiResult, copied, selectedIndex, visible, timers>>

\* C17: in AwaitingSelection with n candidates a digit key d dispatches the
\* candidate at 0-based index d-1, and only it, when d <= n, and changes
\* nothing and calls nothing when d > n
C17_DigitKey ==
    [][\A d \in 1..9 :
          (AwaitingSelection /\ KeyDigit(d)) =>
              IF d <= Len(actions)
              THEN DispatchedExactly(popupData[1].actions[d])
              ELSE /\ UNCHANGED <<popupData, aiResult, loading, copied,
                                  selectedIndex, visible, calls, timers>>
                   /\ out' = <<>>]_vars

\* C17 witness: with three candidates and the keyboard index at 0 the third
\* candidate, a script, is the one dispatch of the Session
C17_Witness ==
    /\ Executing
    /\ actions = <<"url", "local_format", "script">>
    /\ selectedIndex = 0
    /\ calls = SetToBag({[kind |-> "script", gen |-> gen]})
    /\ out = <<>>

CopyStarted ==
    calls' = calls (+) SetToBag({[kind |-> "clipboard", gen |-> gen]})

\* this step handles the reply to a clipboard write
CopyReplied ==
    \E c \in BagToSet(calls) :
        c.kind = "clipboard" /\ calls' = calls (-) SetToBag({c})

\* C19: a copy first writes the displayed text to the clipboard, leaving
\* acknowledgement and window alone; when the write has completed the
\* acknowledgement is set and the hide is scheduled, the window still
\* shown; the hide happens when the delay has passed.  No copy ends
\* without its hide scheduled.
C19_CopyThenClosed ==
    [][/\ CopyStarted =>
              /\ out' = <<[cmd |-> "clipboard.writeText",
                           text |-> aiResult[1].result]>>
              /\ copied' = copied
              /\ visible' = visible
              /\ timers' = timers
       /\ CopyReplied =>
              /\ copied'
              /\ Len(timers') = Len(timers) + 1
              /\ visible' = visible
       /\ (timers # <<>> /\ timers' = Tail(timers)) => ~visible']_vars

\* the heights the overlay asked for on entering ShowingResult
ResultHeights ==
    {out[i].height : i \in {j \in DOMAIN out :
                               /\ out[j].cmd = "adjust_window_size"
                               /\ aiResult # None}}

Displays(text) == aiResult # None /\ aiResult[1].result = text

\* C21 as stated: a result of 1 character is given exactly the lower clamp
\* bound, 80
C21_OneCharIsMinimum ==
    Displays(<<1>>) => \A h \in ResultHeights : h = 80

\* C21 amended: a result of 1 character is given floor(1 * 22.4 + 60) = 82,
\* two above the lower clamp bound, limited to floor(0.8 * H) and then
\* raised to 80 on a display where floor(0.8 * H) is less than 82
C21_OneCharHeight ==
    Displays(<<1>>) =>
        \A h \in ResultHeights :
            h = Max(80, Min((availHeight * 8) \div 10, 82))

\* C21 witness: on a display 768 high a result of 1 character asks for 82
C21_Witness ==
    /\ availHeight = 768
    /\ Displays(<<1>>)
    /\ out = <<AdjustWindowSize(500, 82)>>

\* C22 as stated: a single line of 3000 characters is given exactly
\* floor(0.8 * H)
C22_LongTextIsShare ==
    Displays(<<3000>>) =>
        \A h \in ResultHeights : h = (availHeight * 8) \div 10

\* C22 amended: a single line of 3000 characters is estimated at
\* ceil(3000 / 55) = 55 lines, 55 * 22.4 + 60 = 1292; it is given
\* floor(0.8 * H) when that lies between 80 and 1292 (H from 100 to 1616)
\* and 1292 on a taller display
C22_LongTextHeight ==
    Displays(<<3000>>) =>
        \A h \in ResultHeights :
            h = Max(80, Min((availHeight * 8) \div 10, 1292))

\* C22 witness: on a display 1080 high a line of 3000 characters asks for
\* floor(0.8 * 1080) = 864
C22_Witness ==
    /\ availHeight = 1080
    /\ Displays(<<3000>>)
    /\ out = <<AdjustWindowSize(500, 864)>>

\* this step is the receipt of a message by an overlay that has already
\* displayed a Session
Restarted == Received /\ gen >= 1

\* C23: on a restart the first call the overlay makes is the reset to
\* 500 x 64, before any resize for content, and every resize for content
\* is computed from a result of the Session displayed, never from a result
\* of the Session before it
C23_ResetBeforeResize ==
    [][/\ Restarted => (out' # <<>> /\ out'[1] = AdjustWindowSize(500, 64))
       /\ (aiResult' # None /\ ~NoResize(out')) => resultGen' = gen']_vars

\* the adjust_window_size calls of the last step
Resizes == {out[i] : i \in {j \in DOMAIN out : out[j].cmd = "adjust_window_size"}}

\* C24: every adjust_window_size call of the overlay names the popup
\* window and the width 500
C24_WidthConstant ==
    \A r \in Resizes : r.label = "popup" /\ r.width = 500

\* C24 witness: the overlay has asked for the height of a three-line error
\* text, another height than the 64 of the reset, at the same width
C24_Witness ==
    /\ gen >= 1
    /\ Resizes = {AdjustWindowSize(500, 127)}
    /\ aiResult # None
    /\ aiResult[1].action_type = "error"

\* the urls handed to open_url in the last step
OpenedUrls == {out[i].url : i \in {j \in DOMAIN out : out[j].cmd = "open_url"}}

\* the url candidate of the Session and the text it was captured with
UrlAction == popupData[1].actions[1]
Captured == popupData[1].capturedText

OrderText ==
    <<"o", "r", "d", "e", "r", " ", "#", "4", "8", "2", "1", " ",
      "r", "e", "a", "d", "y">>

\* C25: with the template "${0}" the url opened is the effective text as it
\* is: the captured text when there is no pattern, the first match of the
\* pattern when it matches (\d+ on "order #4821 ready" opens "4821", on
\* "7 12" opens "7"), and never a percent-encoded form
C25_VerbatimUrl ==
    \A u \in OpenedUrls :
        UrlAction.template = Placeholder =>
            /\ u = TargetText(UrlAction, Captured)
            /\ UrlAction.extraction_pattern = None => u = Captured
            /\ UrlAction.extraction_pattern = Some([kind |-> "digits", lit |-> <<>>]) =>
                  /\ Captured = OrderText => u = <<"4", "8", "2", "1">>
                  /\ Captured = <<"7", " ", "1", "2">> => u = <<"7">>
                  /\ Captured = <<"a", " ", "b">> => u = <<"a", " ", "b">>

\* C25 witness: "${0}" with the pattern \d+ on "order #4821 ready" has
\* opened "4821"
C25_Witness ==
    /\ UrlAction.template = Placeholder
    /\ UrlAction.extraction_pattern = Some([kind |-> "digits", lit |-> <<>>])
    /\ Captured = OrderText
    /\ out = <<OpenUrl(<<"4", "8", "2", "1">>)>>
    /\ calls = SetToBag({[kind |-> "url", gen |-> 1]})

\* C26: with any other template the url opened is the template with the
\* placeholder replaced by the percent-encoded effective text
\* ("https://x.com/s?q=${0}" with "a b" opens "https://x.com/s?q=a%20b"),
\* and the url opened contains no placeholder
C26_TemplateSubstituted ==
    \A u \in OpenedUrls :
        UrlAction.template # Placeholder =>
            /\ (/\ UrlAction.template =
                     <<"h", "t", "t", "p", "s", ":", "/", "/", "x", ".", "c",
                       "o", "m", "/", "s", "?", "q", "=", "$", "{", "0", "}">>
                /\ UrlAction.extraction_pattern = None
                /\ Captured = <<"a", " ", "b">>) =>
                  u = <<"h", "t", "t", "p", "s", ":", "/", "/", "x", ".", "c",
                        "o", "m", "/", "s", "?", "q", "=", "a", "%", "2", "0",
                        "b">>
            /\ IndexOf(Placeholder, u) = 0

\* the extraction pattern of the url candidate is no regular expression or
\* matches nowhere in the captured text
PatternFails ==
    LET p == UrlAction.extraction_pattern
    IN /\ p # None
       /\ \/ p[1].kind = "malformed"
          \/ p[1].kind = "digits" /\ \A i \in DOMAIN Captured : Captured[i] \notin Digits
          \/ p[1].kind = "literal" /\ p[1].lit # <<>> /\ IndexOf(p[1].lit, Captured) = 0

\* the url built from the captured text as it is
UrlOfCaptured ==
    IF UrlAction.template = Placeholder
    THEN Captured
    ELSE ReplaceFirst(UrlAction.template, Placeholder, EncodeURIComponent(Captured))

\* C27: a pattern that does not compile or does not match does not stop the
\* url action: the dispatch is possible, it invokes open_url once and no
\* other call, and the url is built from the unmodified captured text
C27_ExtractionFallsBack ==
    /\ []((AwaitingSelection /\ Pending < MaxInFlight /\ PatternFails)
             => ENABLED HandleUrlAction)
    /\ [][(HandleUrlAction /\ PatternFails) =>
             /\ out' = <<OpenUrl(UrlOfCaptured)>>
             /\ calls' = calls (+) SetToBag({[kind |-> "url", gen |-> gen]})]_vars

\* C27 witness: "${0}" with the pattern "(" on "a&b" has opened "a&b"
C27_Witness ==
    /\ UrlAction.template = Placeholder
    /\ UrlAction.extraction_pattern = Some([kind |-> "malformed", lit |-> <<"(">>])
    /\ Captured = <<"a", "&", "b">>
    /\ out = <<OpenUrl(<<"a", "&", "b">>)>>
    /\ calls = SetToBag({[kind |-> "url", gen |-> 1]})

\* the types of an ai_ branch that awaits nothing
UnknownAi == AiPrefixed \ TransformKinds

\* a step that dispatches one of the candidates by key or by click
DispatchStep ==
    \/ KeyEnter
    \/ ClickAction
    \/ \E d \in 1..Len(actions) : KeyDigit(d)

\* C28: in AwaitingSelection the dispatch of a candidate whose type starts
\* with "ai_" and is none of ai_translate, ai_summarize, ai_process calls no
\* external service, sets no result and leaves the overlay as it was: in
\* AwaitingSelection with the same candidates, the spinner off
C28_UnknownAiNoOp ==
    [][(/\ AwaitingSelection
        /\ \A i \in DOMAIN actions : actions[i] \in UnknownAi
        /\ DispatchStep) =>
           /\ AwaitingSelection'
           /\ UNCHANGED <<popupData, aiResult, loading, copied, selectedIndex,
                           visible, calls, timers, gen, resultGen, chan>>
           /\ UNCHANGED mainVars
           /\ \A i \in DOMAIN out' : out'[i].cmd = "setLoading"]_vars

\* C28 witness: the one candidate ai_other has been dispatched; the spinner
\* was set and cleared, nothing is in flight and the candidates are offered
C28_Witness ==
    /\ AwaitingSelection
    /\ actions = <<"ai_other">>
    /\ out = <<SetLoading(TRUE), SetLoading(FALSE)>>
    /\ calls = EmptyBag

\* the two encodings of one gesture at (120, 340)
TuplePayload == [isArray |-> TRUE, elems |-> <<120, 340>>, props |-> None]
ObjectPayload ==
    [isArray |-> FALSE, elems |-> <<>>, props |-> Some([x |-> 120, y |-> 340])]

\* the cycle a listener starts for a gesture at position
StartedCycle(position) ==
    [pc |-> "awaitProcess", pos |-> Some(position), res |-> None,
     log |-> <<"call:process_selection">>]

\* C29: a delivery of trigger-spotlight in either encoding is taken by its
\* listener; with the flag clear both encodings of (120, 340) start the same
\* cycle, and the cycle calls set_popup_position with x = 120 and y = 340
C29_EncodingsEquivalent ==
    /\ [](\A p \in {TuplePayload, ObjectPayload} :
            /\ (inbox["primary"] # <<>> /\ Head(inbox["primary"]) = p
                   /\ ~isProcessing) => ENABLED SpotlightPrimary
            /\ (inbox["backup"] # <<>> /\ Head(inbox["backup"]) = p
                   /\ ~isProcessing) => ENABLED SpotlightBackup)
    /\ [][\A l \in Listeners :
             /\ (inbox[l] # <<>> /\ inbox'[l] = Tail(inbox[l]) /\ ~isProcessing)
                   => (runs'[l] = StartedCycle(<<120, 340>>))
             /\ (runs[l].pc = "awaitProcess" /\ runs'[l].pc = "awaitPosition")
                   => (out' = <<[cmd |-> "set_popup_position",
                                 x |-> 120, y |-> 340]>>)]_vars

\* C29 witness: the primary listener took the object encoding, which the
\* backup listener still holds, and its cycle has called set_popup_position
C29_Witness ==
    /\ inbox["backup"] = <<ObjectPayload>>
    /\ inbox["primary"] = <<>>
    /\ runs["primary"].pc = "awaitPosition"
    /\ out = <<[cmd |-> "set_popup_position", x |-> 120, y |-> 340]>>

\* C29 witness: the same cycle from the tuple encoding
C29_WitnessTuple ==
    /\ inbox["backup"] = <<TuplePayload>>
    /\ inbox["primary"] = <<>>
    /\ runs["primary"].pc = "awaitPosition"
    /\ out = <<[cmd |-> "set_popup_position", x |-> 120, y |-> 340]>>

\* this step is a listener taking a delivery with the flag clear
TriggerAccepted(l) ==
    /\ inbox[l] # <<>>
    /\ inbox'[l] = Tail(inbox[l])
    /\ ~isProcessing

\* the number of process_selection calls in the log of a cycle
Invocations(log) ==
    Cardinality({i \in DOMAIN log : log[i] = "call:process_selection"})

\* C30: a trigger that finds the flag clear starts a cycle that holds no
\* match result and invokes process_selection; a cycle invokes it once; the
\* result a cycle holds is the one its own invocation resolved with; and a
\* publication carries the actions and the captured text of the result held
\* by the cycle that publishes
C30_FreshMatchPublished ==
    /\ [](/\ \A l \in Listeners : InFlight(l) => Invocations(runs[l].log) = 1
          /\ lastCycle # <<>> => Invocations(lastCycle) = 1)
    /\ [][\A l \in Listeners :
             /\ TriggerAccepted(l) =>
                   /\ flight'.proc = flight.proc + 1
                   /\ runs'[l].res = None
                   /\ runs'[l].log = <<"call:process_selection">>
             /\ (runs'[l].res # runs[l].res /\ runs'[l].res # None) =>
                   /\ runs[l].pc = "awaitProcess"
                   /\ runs[l].res = None
                   /\ runs'[l].res[1] \in ProcResults
             /\ (runs[l].pc = "awaitEmit" /\ Len(chan') = Len(chan) + 1) =>
                   /\ Last(chan').actions = runs[l].res[1].actions[1]
                   /\ Last(chan').capturedText = runs[l].res[1].captured_text]_vars
    /\ [][Len(chan') > Len(chan) =>
             \E l \in Listeners : runs[l].pc = "awaitEmit"]_vars

\* C30 witness: the two deliveries of one gesture each ran a cycle; the
\* second matched anew and published its own candidates and text
C30_Witness ==
    /\ Len(chan) = 2
    /\ chan[1].capturedText = "t1" /\ chan[1].actions = <<"ai_other">>
    /\ chan[2].capturedText = "t2" /\ chan[2].actions = <<"ai_translate", "path">>
    /\ lastCycle = PublishedCycle
    /\ ~isProcessing

\* this step is the receipt of the message the overlay already displays
Redelivered ==
    /\ Received
    /\ popupData # None
    /\ Head(chan) = popupData[1]

\* the overlay is as the receipt of the message it displays left it
AsDelivered ==
    /\ popupData # None
    /\ aiResult = popupData[1].aiResult
    /\ ~loading /\ ~copied /\ selectedIndex = 0

\* C31 as stated: the receipt of the message the overlay already displays
\* leaves it in AwaitingSelection with those candidates: index 0, no
\* result, not loading
C31_RedeliveryNoResult ==
    [][Redelivered =>
          /\ popupData' = popupData
          /\ selectedIndex' = 0
          /\ aiResult' = None
          /\ ~loading'
          /\ ~copied']_vars

\* C31 amended: the receipt of the message the overlay already displays
\* restarts the Session with those candidates, index 0, not loading, the
\* acknowledgement cleared and the message's aiResult as the result; right
\* after the first receipt it changes nothing of the overlay and repeats
\* the window calls of the first
C31_Redelivery ==
    [][Redelivered =>
          /\ popupData' = popupData
          /\ selectedIndex' = 0
          /\ aiResult' = popupData[1].aiResult
          /\ ~loading'
          /\ ~copied'
          /\ UNCHANGED <<visible, closedBy, calls, timers>>
          /\ AsDelivered =>
                /\ UNCHANGED <<aiResult, loading, copied, selectedIndex>>
                /\ out' = ResetEffect(aiResult) \o ResizeEffect(aiResult)]_vars

\* C31 witness: the message with the script candidate was delivered again
\* while the script dispatched in its first Session was still awaited; the
\* second Session is in AwaitingSelection at index 0
C31_Witness ==
    /\ gen = 2
    /\ popupData # None
    /\ popupData[1].actions = <<"url", "local_format", "script">>
    /\ calls = SetToBag({[kind |-> "script", gen |-> 1]})
    /\ aiResult = None /\ ~loading /\ ~copied /\ selectedIndex = 0
    /\ visible
    /\ out = <<AdjustWindowSize(500, 64)>>

\* the MatchResult of the match that has run, and the priority of the rule
\* at a position of the rule set
MatchResult == matcher.result[1]
PriorityOf(i) == matcher.rules[i].scope.priority

\* the priorities of the rule set, in declaration order
DeclaredPriorities == [i \in DOMAIN matcher.rules |-> PriorityOf(i)]

\* C32: the MatchResult names no rule twice and is ordered by scope.priority
\* descending; rules of equal priority are in declaration order
C32_PriorityOrder ==
    matcher.result # None =>
        \A i, j \in DOMAIN MatchResult :
            i < j =>
                \/ PriorityOf(MatchResult[i]) > PriorityOf(MatchResult[j])
                \/ /\ PriorityOf(MatchResult[i]) = PriorityOf(MatchResult[j])
                   /\ MatchResult[i] < MatchResult[j]

\* C32 witness: three matching rules declared with priorities 1, 5, 3 are
\* matched in the order 5, 3, 1
C32_Witness ==
    /\ DeclaredPriorities = <<1, 5, 3>>
    /\ matcher.result = Some(<<2, 3, 1>>)

\* C32 witness: of two matching rules of priority 3 the one declared first
\* comes first, behind the rule of priority 5 declared between them
C32_WitnessTie ==
    /\ DeclaredPriorities = <<3, 5, 3>>
    /\ matcher.result = Some(<<2, 1, 3>>)

\* the trigger of the rule at position i is a regex that does not compile
Malformed(i) ==
    /\ matcher.rules[i].trigger.kind = "regex"
    /\ matcher.rules[i].trigger.pattern.kind = "malformed"

\* the rule at position i applies to the capture
Matches(i) ==
    /\ ~Blank(matcher.text)
    /\ Passes(matcher.rules[i], matcher.appId, matcher.text)

\* C33: a match returns a MatchResult whatever the rule set holds; a rule
\* whose regex does not compile is not in it, and every rule that applies
\* to the capture is, whatever the other rules of the set
C33_MalformedSkipped ==
    /\ [](matcher.result # None =>
            \A i \in DOMAIN matcher.rules :
                /\ Malformed(i) => i \notin Range(MatchResult)
                /\ Matches(i) => i \in Range(MatchResult))
    /\ [][RunMatch =>
             /\ matcher'.result # None
             /\ Range(matcher'.result[1]) \subseteq DOMAIN matcher.rules]_vars

\* C33 witness: a rule set with a malformed pattern between two rules that
\* match digits: the two are matched, the malformed one is left out
C33_Witness ==
    /\ Len(matcher.rules) = 3
    /\ ~Malformed(1) /\ Malformed(2) /\ ~Malformed(3)
    /\ DeclaredPriorities = <<1, 5, 3>>
    /\ matcher.result = Some(<<3, 1>>)

\* a cycle has shown the popup window for a capture whose message the
\* overlay has not received yet
NewerCaptureShown ==
    \/ \E l \in Listeners : runs[l].pc = "awaitEmit"
    \/ chan # <<>>

\* C34: a visible overlay displays the Session of the most recent capture:
\* while the window has been shown for a capture whose trigger-selection
\* message is not delivered yet, no candidates of an earlier Session are on
\* display or open to a dispatch
C34_VisibleShowsLatest ==
    NewerCaptureShown => ~Interactive

\* a transform dispatched by the Session on display is awaited
CurrentInFlight ==
    \E d \in BagToSet(calls) : d.gen = gen /\ d.kind \in TransformKinds

\* this step is the completion of the transform call c
Completes(c) ==
    \/ \E res \in AllResults : TransformResolves(c, res)
    \/ \E e \in ErrorMessages : TransformRejects(c, e)

\* C35: the completion of a transform that an earlier Session dispatched
\* leaves the spinner on while a transform dispatched by the Session on
\* display is awaited
C35_StaleCompletionKeepsSpinner ==
    [][\A c \in BagToSet(calls) :
          (c.gen # gen /\ loading /\ CurrentInFlight /\ Completes(c))
              => loading']_vars

\* C36: the timer of a copy made in an earlier Session, when it fires,
\* leaves the overlay of the Session on display visible
C36_StaleTimerKeepsOverlay ==
    [][(timers # <<>> /\ Head(timers) # gen /\ Interactive /\ TimerFires)
          => visible']_vars

\* this step is the rejection of set_popup_position or of
\* set_window_visibility in the cycle of listener l
ShowFailed(l) ==
    \/ SetPopupPositionRejects(l)
    \/ SetWindowVisibilityRejects(l)

\* C37: when set_popup_position or set_window_visibility rejects, the cycle
\* ends there: nothing is published, the cycle is over with the flag clear,
\* no emit was called in it, and the overlay with its Session is as before
C37_ShowFailureSwallowed ==
    [][\A l \in Listeners :
          ShowFailed(l) =>
              /\ chan' = chan
              /\ ~isProcessing'
              /\ runs'[l] = IdleRun
              /\ Last(lastCycle') = "rejected"
              /\ "call:emit" \notin Range(lastCycle')
              /\ UNCHANGED <<popupData, aiResult, loading, copied,
                              selectedIndex, visible, closedBy, calls, timers,
                              gen, resultGen>>]_vars

\* C37 witness: the second cycle of a gesture failed at
\* set_window_visibility; the flag is clear, nothing is waiting to be
\* delivered and the Session the first cycle opened is on display
C37_Witness ==
    /\ lastCycle = <<"call:process_selection", "done:process_selection",
                     "result:some", "call:set_popup_position",
                     "done:set_popup_position", "call:set_window_visibility",
                     "fail:set_window_visibility", "rejected">>
    /\ ~isProcessing
    /\ chan = <<>>
    /\ gen = 1
    /\ AwaitingSelection
    /\ nTriggers = 1 /\ inbox = [l \in Listeners |-> <<>>]

\* C38: the spinner is on only while a transform call is awaited, and the
\* reply to a transform call, be it a result, an empty result or a
\* rejection, leaves the spinner off
C38_ReplyEndsExecuting ==
    /\ [](loading => \E c \in BagToSet(calls) : c.kind \in TransformKinds)
    /\ [][\A c \in BagToSet(calls) :
             /\ \A res \in AllResults : TransformResolves(c, res) => ~loading'
             /\ \A e \in ErrorMessages : TransformRejects(c, e) => ~loading']_vars

\* C38 witness: the script of the Session resolved with an empty result;
\* the overlay is back at its candidates with the spinner off
C38_Witness ==
    /\ AwaitingSelection
    /\ out = <<Reply([kind |-> "script", gen |-> gen], "resolved")>>
    /\ calls = EmptyBag
    /\ closedBy = "none"

\* C39: the main window never stores a trigger-selection payload and the
\* popup window never invokes process_selection; a Session starts only at
\* the popup window's receipt of a message, and process_selection is
\* invoked only by a listener of the main window taking a delivery
C39_RolesExclusive ==
    /\ [](other.popupData = None /\ other.proc = 0)
    /\ [][/\ SelectionInMain =>
                UNCHANGED <<popupData, aiResult, loading, copied,
                            selectedIndex, gen, resultGen>>
          /\ SpotlightInPopup => UNCHANGED <<isProcessing, runs, flight>>
          /\ (gen' # gen \/ popupData' # popupData) =>
                (chan # <<>> /\ chan' = Tail(chan))
          /\ flight'.proc > flight.proc =>
                \E l \in Listeners :
                    inbox[l] # <<>> /\ inbox'[l] = Tail(inbox[l])]_vars

\* C39 witness: one gesture and its message have been through every
\* listener of both windows; the popup window holds the Session, the main
\* window none, and process_selection ran from the main window only
C39_Witness ==
    /\ nTriggers = 1
    /\ other = NoOther
    /\ inbox = [l \in Listeners |-> <<>>]
    /\ chan = <<>>
    /\ gen = 1
    /\ popupData # None
    /\ lastCycle = PublishedCycle
    /\ ~isProcessing

\* this step invokes what the candidate at position i (1-based) of the
\* Session on display stands for, and nothing else
Refers(i) ==
    /\ i \in DOMAIN actions
    /\ calls' = IF actions[i] \in OpenKinds \cup TransformKinds
                THEN calls (+) SetToBag({[kind |-> actions[i], gen |-> gen]})
                ELSE calls

====
